---- MODULE Spec2Model ----
(***************************************************************************)
(* Model of the spectralio package: GeotransformModel, PointGeolocation    *)
(* and RasterGeolocation (geospatial_models.py), WvlModel (wvl_models.py), *)
(* Spectrum1D (spec1D_models.py), SpectrumGroup (specgroup_models.py) and  *)
(* the writers and readers (writing.py, reading.py) over a disk of JSON    *)
(* documents.                                                              *)
(*                                                                         *)
(* Floats are modelled as exact rationals <<n, d>> in lowest terms with    *)
(* d > 0; rounding is outside the model.  The inputs are nonzero           *)
(* wavelengths, so no conversion divides by zero.                          *)
(***************************************************************************)
EXTENDS Integers, Sequences, FiniteSets, TLC

VARIABLES
    geotransform,   \* the GeotransformModel under test
    gdal_in,        \* the 6-tuple geotransform was built from by fromgdal, or <<>>
    gdal_out,       \* the last tuple returned by togdal, or <<>>
    pixel_in,       \* the pixel point last given to pixel_to_map
    map_pt,         \* the map point last produced by pixel_to_map / given to map_to_pixel
    pixel_out,      \* the outcome of the last map_to_pixel call
    wvl,            \* the WvlModel under test
    wvl_ret,        \* the outcome of the last call on wvl
    origin,         \* values and unit wvl was constructed with and the convert_to calls since
    spec1d,         \* the Spectrum1D under test
    apply_ret,      \* the outcome of the last Spectrum1D call
    repeat_log,     \* outcomes of the applybbl calls made on records whose bbl_applied was already true
    geoloc,         \* the BaseGeolocationModel under test
    point_geo,      \* the outcome of the last PointGeolocation.from_base call
    raster_geo,     \* the outcome of the last RasterGeolocation construction
    grp,            \* the SpectrumGroup under test
    grp_ret,        \* the outcome of the last call on grp or on one of its members
    files,          \* the files on disk: path suffix and the document written
    io_ret          \* the outcome of the last reader or writer call

geo_vars == <<geotransform, gdal_in, gdal_out, pixel_in, map_pt, pixel_out>>
wvl_vars == <<wvl, wvl_ret, origin>>
s1d_vars == <<spec1d, apply_ret, repeat_log>>
loc_vars == <<geoloc, point_geo, raster_geo>>
grp_vars == <<grp, grp_ret>>
io_vars == <<files, io_ret>>
vars == <<geo_vars, wvl_vars, s1d_vars, loc_vars, grp_vars, io_vars>>

-----------------------------------------------------------------------------
(* Bounds of the model *)

\* geotransform coefficients range over -1 .. MaxCoef
MaxCoef == 2
\* upper-left coordinates range over 0 .. MaxOrigin
MaxOrigin == 1
\* pixel and map coordinates given to the conversions range over 0 .. MaxPixel
MaxPixel == 2
\* wavelength values and spectra have at most MaxLen entries
MaxLen == 2
\* convert_to calls followed from the construction of wvl
MaxHops == 2
\* a SpectrumGroup has at most MaxMembers members
MaxMembers == 2

-----------------------------------------------------------------------------
(* Exact rational arithmetic standing for float arithmetic *)

Abs(x) == IF x < 0 THEN -x ELSE x

Sign(x) == IF x < 0 THEN -1 ELSE IF x > 0 THEN 1 ELSE 0

RECURSIVE GCD(_, _)
GCD(a, b) == IF b = 0 THEN a ELSE GCD(b, a % b)

\* greatest common divisor used for cancelling; never 0
Div(a, b) == LET g == GCD(Abs(a), Abs(b)) IN IF g = 0 THEN 1 ELSE g

\* n / d in lowest terms, for d # 0
Rat(n, d) ==
    LET g == Div(n, d)
        s == Sign(d)
    IN  <<s * (n \div g), s * (d \div g)>>

R(n) == <<n, 1>>

IsZero(a) == a[1] = 0

RNeg(a) == <<-a[1], a[2]>>

RAbs(a) == <<Abs(a[1]), a[2]>>

\* a * b, cancelling across before multiplying
RMul(a, b) ==
    LET g1 == Div(a[1], b[2])
        g2 == Div(b[1], a[2])
    IN  Rat((a[1] \div g1) * (b[1] \div g2), (a[2] \div g2) * (b[2] \div g1))

\* a / b, for b # 0
RDiv(a, b) == RMul(a, <<Sign(b[1]) * b[2], Abs(b[1])>>)

\* a + b over the least common denominator
RAdd(a, b) ==
    LET g == Div(a[2], b[2])
    IN  Rat(a[1] * (b[2] \div g) + b[1] * (a[2] \div g), a[2] * (b[2] \div g))

RSub(a, b) == RAdd(a, RNeg(b))

RLess(a, b) ==
    LET g == Div(a[2], b[2])
    IN  a[1] * (b[2] \div g) < b[1] * (a[2] \div g)

-----------------------------------------------------------------------------
(* geospatial_models.py *)

PointModel(x, y) == [x |-> x, y |-> y]

GeotransformModel(upperleft, xres, row_rotation, yres, col_rotation) ==
    [upperleft |-> upperleft, xres |-> xres, row_rotation |-> row_rotation,
     yres |-> yres, col_rotation |-> col_rotation]

\* GeotransformModel.fromgdal: gdal_transform is a Python tuple, t[i + 1] is its item i
fromgdal(t) ==
    GeotransformModel(PointModel(t[1], t[4]), t[2], t[3], t[6], t[5])

\* GeotransformModel.togdal
togdal(self) ==
    <<self.upperleft.x, self.xres, self.row_rotation,
      self.upperleft.y, self.yres, self.col_rotation>>

\* GeotransformModel.pixel_to_map
pixel_to_map(self, xpixel, ypixel, convention) ==
    LET xmap == RAdd(RAdd(self.upperleft.x, RMul(xpixel, self.xres)),
                     RMul(ypixel, self.row_rotation))
        ymap == RAdd(RAdd(self.upperleft.y, RMul(ypixel, self.yres)),
                     RMul(xpixel, self.col_rotation))
    IN  IF convention = "globe" /\ RLess(xmap, R(0))
        THEN <<RAdd(xmap, R(360)), ymap>>
        ELSE <<xmap, ymap>>

\* the determinant map_to_pixel divides by
Scaler(self) ==
    RSub(RMul(self.xres, self.yres), RMul(self.col_rotation, self.row_rotation))

map_to_pixel_checks_x_only(self, xmap, ymap) ==
    IF IsZero(self.xres) \/ IsZero(Scaler(self)) \/ IsZero(self.yres)
    THEN [kind |-> "ZeroDivisionError"]
    ELSE
    LET xpixel ==
            RDiv(RAdd(RSub(RSub(RMul(self.yres, xmap),
                                RMul(self.upperleft.x, self.yres)),
                           RMul(RDiv(RMul(self.row_rotation, self.yres), self.xres), ymap)),
                      RMul(self.row_rotation, self.upperleft.y)),
                 Scaler(self))
        ypixel ==
            RDiv(RAdd(RSub(RSub(RMul(self.xres, ymap),
                                RMul(self.upperleft.y, self.xres)),
                           RMul(RDiv(RMul(self.col_rotation, self.xres), self.yres), xmap)),
                      RMul(self.col_rotation, self.upperleft.x)),
                 Scaler(self))
    IN  IF RLess(xpixel, R(0))
        THEN [kind |-> "GeographicBoundsError"]
        ELSE [kind |-> "ok", pt |-> <<xpixel, ypixel>>]

\* GeotransformModel.map_to_pixel on Python floats: a division by zero raises
\* ZeroDivisionError, a negative pixel coordinate raises GeographicBoundsError
map_to_pixel(self, xmap, ymap) ==
    IF IsZero(self.xres) \/ IsZero(Scaler(self)) \/ IsZero(self.yres)
    THEN [kind |-> "ZeroDivisionError"]
    ELSE
    LET xpixel ==
            RDiv(RAdd(RSub(RSub(RMul(self.yres, xmap),
                                RMul(self.upperleft.x, self.yres)),
                           RMul(RDiv(RMul(self.row_rotation, self.yres), self.xres), ymap)),
                      RMul(self.row_rotation, self.upperleft.y)),
                 Scaler(self))
        ypixel ==
            RDiv(RAdd(RSub(RSub(RMul(self.xres, ymap),
                                RMul(self.upperleft.y, self.xres)),
                           RMul(RDiv(RMul(self.col_rotation, self.xres), self.yres), xmap)),
                      RMul(self.col_rotation, self.upperleft.x)),
                 Scaler(self))
    IN  IF RLess(xpixel, R(0)) \/ RLess(ypixel, R(0))
        THEN [kind |-> "GeographicBoundsError"]
        ELSE [kind |-> "ok", pt |-> <<xpixel, ypixel>>]

Coefs == {R(c) : c \in -1 .. MaxCoef}

Origins == {R(c) : c \in 0 .. MaxOrigin}

Pixels == {R(c) : c \in 0 .. MaxPixel}

NoCall == [kind |-> "none"]

\* The objects the geotransform checks start from: GeotransformModel(...) with any
\* six floats (pydantic validates their type only), or fromgdal of any 6-tuple.
GeoInit ==
    \E ux, uy \in Origins, c1, c2, c3, c4 \in Coefs, via \in {"init", "fromgdal"} :
        /\ geotransform = IF via = "init"
                          THEN GeotransformModel(PointModel(ux, uy), c1, c2, c3, c4)
                          ELSE fromgdal(<<ux, c1, c2, uy, c3, c4>>)
        /\ gdal_in = IF via = "init" THEN <<>> ELSE <<ux, c1, c2, uy, c3, c4>>
        /\ gdal_out = <<>>
        /\ pixel_in = NoCall
        /\ map_pt = <<>>
        /\ pixel_out = NoCall

\* no call has been made on geotransform yet; the calls below are pure, so one
\* call chain per object covers them
GeoFresh ==
    /\ gdal_out = <<>>
    /\ pixel_in = NoCall
    /\ map_pt = <<>>
    /\ pixel_out = NoCall

\* t = geotransform.togdal()
GeoToGdal ==
    /\ GeoFresh
    /\ gdal_out' = togdal(geotransform)
    /\ UNCHANGED <<geotransform, gdal_in, pixel_in, map_pt, pixel_out>>
    /\ UNCHANGED <<wvl_vars, s1d_vars, loc_vars, grp_vars, io_vars>>

\* geotransform = GeotransformModel.fromgdal(t) with the tuple togdal returned
GeoFromGdal ==
    /\ gdal_in = <<>>
    /\ gdal_out # <<>>
    /\ geotransform' = fromgdal(gdal_out)
    /\ gdal_in' = gdal_out
    /\ gdal_out' = <<>>
    /\ UNCHANGED <<pixel_in, map_pt, pixel_out>>
    /\ UNCHANGED <<wvl_vars, s1d_vars, loc_vars, grp_vars, io_vars>>

GeoPixelToMap ==
    \E col, row \in Pixels, convention \in {"hemi", "globe"} :
        /\ GeoFresh
        /\ pixel_in' = [kind |-> "pixel", pt |-> <<col, row>>, convention |-> convention]
        /\ map_pt' = pixel_to_map(geotransform, col, row, convention)
        /\ UNCHANGED <<geotransform, gdal_in, gdal_out, pixel_out>>
        /\ UNCHANGED <<wvl_vars, s1d_vars, loc_vars, grp_vars, io_vars>>

\* map_to_pixel applied to the map point pixel_to_map returned
GeoMapToPixelBack ==
    /\ pixel_in.kind = "pixel"
    /\ pixel_out = NoCall
    /\ pixel_out' = map_to_pixel(geotransform, map_pt[1], map_pt[2])
    /\ UNCHANGED <<geotransform, gdal_in, gdal_out, pixel_in, map_pt>>
    /\ UNCHANGED <<wvl_vars, s1d_vars, loc_vars, grp_vars, io_vars>>

\* map_to_pixel applied to a map point of the caller
GeoMapToPixel ==
    \E xmap, ymap \in Pixels :
        /\ GeoFresh
        /\ map_pt' = <<xmap, ymap>>
        /\ pixel_out' = map_to_pixel(geotransform, xmap, ymap)
        /\ UNCHANGED <<geotransform, gdal_in, gdal_out, pixel_in>>
        /\ UNCHANGED <<wvl_vars, s1d_vars, loc_vars, grp_vars, io_vars>>

GeoNext ==
    \/ GeoToGdal
    \/ GeoFromGdal
    \/ GeoPixelToMap
    \/ GeoMapToPixelBack
    \/ GeoMapToPixel

\* Bounds, the dataclass get_bbox returns
Bounds(left, bottom, right, top) ==
    [left |-> left, bottom |-> bottom, right |-> right, top |-> top]

get_bbox_swaps_dims(self, height, width) ==
    Bounds(self.upperleft.x,
           RAdd(self.upperleft.y, RMul(R(width), self.yres)),
           RAdd(self.upperleft.x, RMul(R(height), self.xres)),
           self.upperleft.y)

\* GeotransformModel.get_bbox
get_bbox(self, height, width) ==
    Bounds(self.upperleft.x,
           RAdd(self.upperleft.y, RMul(R(height), self.yres)),
           RAdd(self.upperleft.x, RMul(R(width), self.xres)),
           self.upperleft.y)

BaseGeolocationModel(crs, gt) == [crs |-> crs, geotransform |-> gt]

PointGeolocation(crs, gt, map_point, pixel_point) ==
    [crs |-> crs, geotransform |-> gt, map_point |-> map_point,
     pixel_point |-> pixel_point]

\* PointGeolocation.from_base for location_type "map" or "pixel": an exception of
\* map_to_pixel leaves the call without a record
\* cls(crs=geoloc.crs, geotransform=geoloc.geotransform, map_point=, pixel_point=)
\* once both points are known; pixel_pt is the outcome of map_to_pixel, which may
\* have raised
from_points(base, map_pt_, pixel_pt) ==
    IF pixel_pt.kind # "ok"
    THEN [kind |-> pixel_pt.kind]
    ELSE [kind |-> "ok",
          self |-> PointGeolocation(base.crs, base.geotransform,
                                    PointModel(map_pt_[1], map_pt_[2]),
                                    PointModel(pixel_pt.pt[1], pixel_pt.pt[2]))]

from_base(base, location, location_type) ==
    IF location_type = "map"
    THEN from_points(base, location,
                     map_to_pixel(base.geotransform, location[1], location[2]))
    ELSE from_points(base,
                     pixel_to_map(base.geotransform, location[1], location[2], "hemi"),
                     [kind |-> "ok", pt |-> location])

\* RasterGeolocation.set_bounds, the validator run after construction
set_bounds(self) ==
    [self EXCEPT !.bounds = get_bbox(self.geotransform, self.height, self.width)]

\* RasterGeolocation(crs=, geotransform=, height=, width=, bounds=)
RasterGeolocation(crs, gt, height, width, bounds) ==
    set_bounds([crs |-> crs, geotransform |-> gt, height |-> height, width |-> width,
                bounds |-> bounds])

\* the coordinate reference systems given
CrsNames == {"EPSG:4326", "IAU:30100"}

\* the bounds values a caller passes to RasterGeolocation: the field's default and
\* another box
GivenBounds == {Bounds(R(0), R(0), R(0), R(0)), Bounds(R(-1), R(-1), R(1), R(1))}

\* The geolocation objects: any crs with any GeotransformModel
LocInit ==
    \E crs \in CrsNames, ux, uy \in Origins, c1, c2, c3, c4 \in Coefs :
        /\ geoloc = BaseGeolocationModel(crs,
                        GeotransformModel(PointModel(ux, uy), c1, c2, c3, c4))
        /\ point_geo = NoCall
        /\ raster_geo = NoCall

\* from_base and the RasterGeolocation constructor are pure: one call per object
LocFresh ==
    /\ point_geo = NoCall
    /\ raster_geo = NoCall

\* PointGeolocation.from_base(geoloc, location, location_type)
LocFromBase ==
    \E x, y \in Pixels, location_type \in {"map", "pixel"} :
        LET r == from_base(geoloc, <<x, y>>, location_type) IN
        /\ LocFresh
        /\ point_geo' = [kind |-> r.kind, location |-> <<x, y>>,
                         location_type |-> location_type,
                         self |-> IF r.kind = "ok" THEN r.self ELSE NoCall]
        /\ UNCHANGED <<geoloc, raster_geo>>
        /\ UNCHANGED <<geo_vars, wvl_vars, s1d_vars, grp_vars, io_vars>>

\* RasterGeolocation(crs=geoloc.crs, geotransform=geoloc.geotransform, height=,
\* width=, bounds=)
LocRaster ==
    \E height, width \in 0 .. MaxPixel, bounds \in GivenBounds :
        /\ LocFresh
        /\ raster_geo' = [kind |-> "ok", given |-> bounds,
                          self |-> RasterGeolocation(geoloc.crs, geoloc.geotransform,
                                                     height, width, bounds)]
        /\ UNCHANGED <<geoloc, point_geo>>
        /\ UNCHANGED <<geo_vars, wvl_vars, s1d_vars, grp_vars, io_vars>>

LocNext ==
    \/ LocFromBase
    \/ LocRaster

-----------------------------------------------------------------------------
(* wvl_models.py *)

Units == {"nm", "um", "m", "v"}

\* arr *= c
Scaled(arr, c) == [i \in 1 .. Len(arr) |-> RMul(arr[i], c)]

\* arr = c / arr
Recip(c, arr) == [i \in 1 .. Len(arr) |-> RDiv(c, arr[i])]

\* s[mask] for a boolean mask as long as s
RECURSIVE Masked(_, _)
Masked(s, mask) ==
    IF s = <<>> THEN <<>>
    ELSE (IF Head(mask) THEN <<Head(s)>> ELSE <<>>) \o Masked(Tail(s), Tail(mask))

\* np.count_nonzero
RECURSIVE CountNonzero(_)
CountNonzero(mask) ==
    IF mask = <<>> THEN 0
    ELSE (IF Head(mask) THEN 1 ELSE 0) + CountNonzero(Tail(mask))

\* (np.max(arr) - np.min(arr)) / arr.size, for a non-empty arr
Resolution(arr) ==
    LET hi == CHOOSE i \in 1 .. Len(arr) : \A j \in 1 .. Len(arr) : ~RLess(arr[i], arr[j])
        lo == CHOOSE i \in 1 .. Len(arr) : \A j \in 1 .. Len(arr) : ~RLess(arr[j], arr[i])
    IN  RDiv(RSub(arr[hi], arr[lo]), R(Len(arr)))

\* np.argmin: the Python index of the first minimum of a non-empty d
argmin(d) ==
    (CHOOSE i \in 1 .. Len(d) :
        /\ \A j \in 1 .. Len(d) : ~RLess(d[j], d[i])
        /\ \A j \in 1 .. i - 1 : RLess(d[i], d[j])) - 1

set_resolution_keeps_counts(self) ==
    [self EXCEPT !.resolution = Resolution(self.values)]

\* WvlModel.set_resolution, the validator run after construction
set_resolution(self) ==
    [self EXCEPT !.resolution = Resolution(self.values),
                 !.nbands = Len(self.values),
                 !.ngoodbands = CountNonzero(self.bbl)]

\* WvlModel(values=, unit=, bbl=, resolution=, nbands=, ngoodbands=): np.max of an
\* empty array raises ValueError in the validator, which pydantic reports as a
\* ValidationError; nothing else is validated beyond the field types
WvlModel(values, unit, bbl, resolution, nbands, ngoodbands) ==
    IF values = <<>>
    THEN [kind |-> "ValidationError"]
    ELSE [kind |-> "ok",
          self |-> set_resolution([values |-> values, unit |-> unit, bbl |-> bbl,
                                   resolution |-> resolution, nbands |-> nbands,
                                   ngoodbands |-> ngoodbands])]

\* WvlModel.__setitem__ with an int index; assignment runs no validator
setitem(self, idx, value) ==
    IF idx >= Len(self.values)
    THEN [kind |-> "IndexError", self |-> self]
    ELSE [kind |-> "ok", self |-> [self EXCEPT !.values[idx + 1] = value]]

\* WvlModel.asarray: a boolean index of another length raises IndexError
asarray(self, bbl) ==
    IF bbl
    THEN IF Len(self.bbl) # Len(self.values)
         THEN [kind |-> "IndexError"]
         ELSE [kind |-> "ok", arr |-> Masked(self.values, self.bbl)]
    ELSE [kind |-> "ok", arr |-> self.values]

to_nm(self) ==
    LET arr == CASE self.unit = "nm" -> self.values
                 [] self.unit = "um" -> Scaled(self.values, R(1000))
                 [] self.unit = "m" -> Scaled(self.values, R(1000000000))
                 [] self.unit = "v" -> Recip(R(1000000000), self.values)
    IN  [self EXCEPT !.values = arr, !.unit = "nm"]

to_um_wrong_factor(self) ==
    LET arr == CASE self.unit = "nm" -> Scaled(self.values, <<1, 1000>>)
                 [] self.unit = "um" -> self.values
                 [] self.unit = "m" -> Scaled(self.values, R(1000))
                 [] self.unit = "v" -> Recip(R(1000000), self.values)
    IN  [self EXCEPT !.values = arr, !.unit = "um"]

to_um(self) ==
    LET arr == CASE self.unit = "nm" -> Scaled(self.values, <<1, 1000>>)
                 [] self.unit = "um" -> self.values
                 [] self.unit = "m" -> Scaled(self.values, R(1000000))
                 [] self.unit = "v" -> Recip(R(1000000), self.values)
    IN  [self EXCEPT !.values = arr, !.unit = "um"]

to_m(self) ==
    LET arr == CASE self.unit = "nm" -> Scaled(self.values, <<1, 1000000000>>)
                 [] self.unit = "um" -> Scaled(self.values, <<1, 1000000>>)
                 [] self.unit = "m" -> self.values
                 [] self.unit = "v" -> Recip(R(1), self.values)
    IN  [self EXCEPT !.values = arr, !.unit = "m"]

to_v(self) ==
    LET arr == CASE self.unit = "nm" -> Recip(R(1000000000), self.values)
                 [] self.unit = "um" -> Recip(R(1000000), self.values)
                 [] self.unit = "m" -> Recip(R(1), self.values)
                 [] self.unit = "v" -> self.values
    IN  [self EXCEPT !.values = arr, !.unit = "v"]

convert_to(self, unit) ==
    CASE unit = "nm" -> to_nm(self)
      [] unit = "um" -> to_um(self)
      [] unit = "m" -> to_m(self)
      [] unit = "v" -> to_v(self)

\* WvlModel.find: self is converted to unit, asarray() masks the values with bbl,
\* np.argmin raises ValueError on an empty array; an exception leaves self converted
find(self, wvl_guess, unit) ==
    LET current_unit == self.unit
        conv == convert_to(self, unit)
        arr == asarray(conv, TRUE)
    IN  IF arr.kind # "ok"
        THEN [self |-> conv, ret |-> [kind |-> arr.kind]]
        ELSE IF arr.arr = <<>>
        THEN [self |-> conv, ret |-> [kind |-> "ValueError"]]
        ELSE LET idx == argmin([i \in 1 .. Len(arr.arr) |->
                                    RAbs(RSub(arr.arr[i], wvl_guess))])
                 back == convert_to(conv, current_unit)
             IN  [self |-> back,
                  ret |-> [kind |-> "ok", idx |-> idx, value |-> back.values[idx + 1]]]

\* the wavelength of k microns written in unit (wavenumbers as the code has them, 1 / m)
InUnit(k, unit) ==
    CASE unit = "nm" -> R(1000 * k)
      [] unit = "um" -> R(k)
      [] unit = "m" -> Rat(k, 1000000)
      [] unit = "v" -> Rat(1000000, k)

\* the sample wavelengths, in microns
Microns == {1, 2}

Wavelengths(unit) == {InUnit(k, unit) : k \in Microns}

SeqsUpTo(S, n) == UNION {[1 .. k -> S] : k \in 0 .. n}

NoWvl == [values |-> <<>>, unit |-> "nm", bbl |-> <<>>, resolution |-> R(0),
          nbands |-> 0, ngoodbands |-> 0]

Snapshot(self) == [values |-> self.values, unit |-> self.unit, hops |-> 0]

\* origin once the calls on wvl are no longer a chain of convert_to calls from its
\* construction
Untracked == [values |-> <<>>, unit |-> "nm", hops |-> -1]

\* a WvlModel exists: its construction did not fail
WvlExists == wvl_ret.kind # "ValidationError"

\* The outcomes of constructing a WvlModel from any values, unit and bbl (a bbl of
\* any length), with any nbands / ngoodbands given by the caller or the document
WvlInit ==
    \E unit \in Units :
    \E values \in SeqsUpTo(Wavelengths(unit), MaxLen), bbl \in SeqsUpTo(BOOLEAN, MaxLen),
       nbands, ngoodbands \in 0 .. MaxLen :
        LET made == WvlModel(values, unit, bbl, R(0), nbands, ngoodbands) IN
        /\ wvl = IF made.kind = "ok" THEN made.self ELSE NoWvl
        /\ wvl_ret = [kind |-> IF made.kind = "ok" THEN "init" ELSE made.kind]
        /\ origin = Snapshot(wvl)

\* wvl.convert_to(unit), which is wvl.to_nm() / to_um() / to_m() / to_v()
WvlConvertTo ==
    \E unit \in Units :
        /\ WvlExists
        /\ wvl' = convert_to(wvl, unit)
        /\ wvl_ret' = [kind |-> "convert_to", unit |-> unit, from |-> wvl.unit]
        /\ origin' = IF origin.hops \in 0 .. MaxHops - 1
                      THEN [origin EXCEPT !.hops = @ + 1]
                      ELSE Untracked
        /\ UNCHANGED <<geo_vars, s1d_vars, loc_vars, grp_vars, io_vars>>

\* wvl[idx] = value
WvlSetItem ==
    \E idx \in 0 .. MaxLen - 1, value \in Wavelengths(wvl.unit) :
        LET r == setitem(wvl, idx, value) IN
        /\ WvlExists
        /\ wvl' = r.self
        /\ wvl_ret' = [kind |-> "setitem", outcome |-> r.kind]
        /\ origin' = Untracked
        /\ UNCHANGED <<geo_vars, s1d_vars, loc_vars, grp_vars, io_vars>>

\* wvl.find(wvl_guess, unit)
WvlFind ==
    \E unit \in Units :
    \E wvl_guess \in Wavelengths(unit) :
        LET r == find(wvl, wvl_guess, unit) IN
        /\ WvlExists
        /\ wvl' = r.self
        /\ wvl_ret' = [kind |-> "find", wvl_guess |-> wvl_guess, unit |-> unit,
                       outcome |-> r.ret]
        /\ origin' = Untracked
        /\ UNCHANGED <<geo_vars, s1d_vars, loc_vars, grp_vars, io_vars>>

WvlNext ==
    \/ WvlConvertTo
    \/ WvlSetItem
    \/ WvlFind

-----------------------------------------------------------------------------
(* spec1D_models.py *)

\* Spectrum1D(name=, spectrum=, wavelength=, bbl_applied=): the class has no
\* validator, so any spectrum, wavelength and flag are accepted
Spectrum1D(spectrum, wavelength, bbl_applied) ==
    [spectrum |-> spectrum, wavelength |-> wavelength, bbl_applied |-> bbl_applied]

\* Spectrum1D.applybbl: np.asarray(spectrum)[bbl] with bbl a list of bool. An empty
\* list indexes nothing, a list of another length than spectrum raises IndexError
\* before bbl_applied is set.
applybbl(self) ==
    IF self.wavelength.bbl = <<>>
    THEN [kind |-> "ok", self |-> [self EXCEPT !.spectrum = <<>>, !.bbl_applied = TRUE]]
    ELSE IF Len(self.wavelength.bbl) # Len(self.spectrum)
    THEN [kind |-> "IndexError", self |-> self]
    ELSE [kind |-> "ok",
          self |-> [self EXCEPT !.spectrum = Masked(self.spectrum, self.wavelength.bbl),
                                !.bbl_applied = TRUE]]

\* the mask of a wavelength object is as long as its values
WellFormed(wavelength) == Len(wavelength.bbl) = Len(wavelength.values)

\* a spectrum of n distinct values
Ramp(n) == [i \in 1 .. n |-> R(i)]

\* the wavelength objects given to Spectrum1D: 1, 2, .. microns in nm, any bbl
S1DWavelengths ==
    {WvlModel([i \in 1 .. n |-> InUnit(i, "nm")], "nm", bbl, R(0), 0, 0).self :
        n \in 1 .. MaxLen, bbl \in SeqsUpTo(BOOLEAN, MaxLen)}

S1DInit ==
    /\ spec1d = Spectrum1D(Ramp(1), WvlModel(<<InUnit(1, "nm")>>, "nm", <<TRUE>>,
                                             R(0), 0, 0).self, FALSE)
    /\ apply_ret = [kind |-> "init", by_call |-> FALSE]
    /\ repeat_log = {}

\* a new Spectrum1D replaces the record under test
S1DConstruct ==
    \E n \in 0 .. MaxLen, wavelength \in S1DWavelengths, bbl_applied \in BOOLEAN :
        /\ spec1d' = Spectrum1D(Ramp(n), wavelength, bbl_applied)
        /\ apply_ret' = [kind |-> "init", by_call |-> FALSE]
        /\ UNCHANGED repeat_log
        /\ UNCHANGED <<geo_vars, wvl_vars, loc_vars, grp_vars, io_vars>>

\* spec1d.applybbl(). apply_ret keeps the record as it was before the call and
\* whether a call (not the constructor) set its flag; repeat_log gathers how the
\* calls made after such a call ended.
S1DApplyBbl ==
    LET r == applybbl(spec1d) IN
    /\ spec1d' = r.self
    /\ apply_ret' = [kind |-> r.kind, before |-> spec1d,
                     by_call |-> apply_ret.by_call \/ r.kind = "ok"]
    /\ repeat_log' =
          IF apply_ret.by_call /\ spec1d.bbl_applied
          THEN repeat_log \cup {[outcome |-> IF r.kind = "ok" THEN "ignored" ELSE "rejected",
                                 changed |-> r.self # spec1d,
                                 wellformed |-> WellFormed(spec1d.wavelength)]}
          ELSE repeat_log
    /\ UNCHANGED <<geo_vars, wvl_vars, loc_vars, grp_vars, io_vars>>

S1DNext ==
    \/ S1DConstruct
    \/ S1DApplyBbl

\* PointSpectrum1D(name=, spectrum=, wavelength=, pixel=): a Spectrum1D with a pixel
PointSpectrum1D(name, spectrum, wavelength, pixel) ==
    [name |-> name, spectrum |-> spectrum, wavelength |-> wavelength,
     bbl_applied |-> FALSE, pixel |-> pixel]

-----------------------------------------------------------------------------
(* specgroup_models.py *)

RECURSIVE Pow2(_)
Pow2(k) == IF k = 0 THEN 1 ELSE 2 * Pow2(k - 1)

\* the float32 nearest to x (ties to even), for 2^-7 <= |x| < 2^24 or x = 0: the
\* 24-bit significand m and the exponent e with m / 2^e nearest to x
float32(x) ==
    IF x[1] = 0 THEN x
    ELSE LET a == Abs(x[1])
             d == x[2]
             e == CHOOSE k \in 0 .. 30 :
                     Pow2(23) * d <= a * Pow2(k) /\ a * Pow2(k) < Pow2(24) * d
             q == (a * Pow2(e)) \div d
             r == (a * Pow2(e)) % d
             m == IF 2 * r > d \/ (2 * r = d /\ q % 2 = 1) THEN q + 1 ELSE q
         IN  Rat(Sign(x[1]) * m, Pow2(e))

\* SpectrumGroup.set_nspectra, the validator run after construction. The polygon
\* alphashape draws around spectra_pts is not part of the model.
set_nspectra(self) == [self EXCEPT !.nspectra = Len(self.spectra)]

\* SpectrumGroup(name=, spectra=, spectra_pts=, wavelength=)
SpectrumGroup(name, spectra, spectra_pts, wavelength) ==
    set_nspectra([name |-> name, spectra |-> spectra, spectra_pts |-> spectra_pts,
                  wavelength |-> wavelength, nspectra |-> 0, bbl_applied |-> FALSE])

\* for i in self.spectra: i.applybbl() -- the members before the one that raises
\* stay filtered
RECURSIVE ApplyEach(_)
ApplyEach(spectra) ==
    IF spectra = <<>> THEN [kind |-> "ok", spectra |-> <<>>]
    ELSE LET i == applybbl(Head(spectra)) IN
         IF i.kind # "ok" THEN [kind |-> i.kind, spectra |-> spectra]
         ELSE LET rest == ApplyEach(Tail(spectra))
              IN  [kind |-> rest.kind, spectra |-> <<i.self>> \o rest.spectra]

\* SpectrumGroup.applybbl
group_applybbl(self) ==
    LET r == ApplyEach(self.spectra) IN
    IF r.kind = "ok"
    THEN [kind |-> "ok", self |-> [self EXCEPT !.spectra = r.spectra, !.bbl_applied = TRUE]]
    ELSE [kind |-> r.kind, self |-> [self EXCEPT !.spectra = r.spectra]]

\* group_array[n, :] = i.spectrum for a row of width _nbands: numpy copies a list
\* of that length, repeats the entry of a one-entry list, and raises ValueError
\* for any other length
AssignRow(spectrum, _nbands) ==
    IF Len(spectrum) = _nbands
    THEN [kind |-> "ok", row |-> [j \in 1 .. _nbands |-> float32(spectrum[j])]]
    ELSE IF Len(spectrum) = 1
    THEN [kind |-> "ok", row |-> [j \in 1 .. _nbands |-> float32(spectrum[1])]]
    ELSE [kind |-> "ValueError"]

\* SpectrumGroup.asarray: the width comes from the first member's wavelength and the
\* group's flag; a member beyond row nspectra - 1 raises IndexError
group_asarray(self) ==
    IF self.spectra = <<>> \/ Len(self.spectra) > self.nspectra
    THEN [kind |-> "IndexError"]
    ELSE LET _nbands == IF self.bbl_applied
                        THEN self.spectra[1].wavelength.ngoodbands
                        ELSE self.spectra[1].wavelength.nbands
             rows == [n \in 1 .. Len(self.spectra) |->
                         AssignRow(self.spectra[n].spectrum, _nbands)]
         IN  IF \E n \in 1 .. Len(rows) : rows[n].kind # "ok"
             THEN [kind |-> "ValueError"]
             ELSE [kind |-> "ok", arr |-> [n \in 1 .. Len(rows) |-> rows[n].row]]

\* the wavelength objects of the groups: 1, 2, .. microns in nm with a mask as
\* long as the values
GrpWavelengths == {w \in S1DWavelengths : WellFormed(w)}

\* row n (from 0) of the data of a group: distinct values, no two rows alike
Row(n, width) == [j \in 1 .. width |-> R(10 * (n + 1) + j)]

\* f"{name}_{n:04d}" for the member indices of the model
MemberName(name, n) == <<name, "_", "0", "0", "0", n>>

\* The groups whose construction succeeded: N raw members over one wavelength
\* object, each with a spectrum of nbands entries
GrpInit ==
    \E wavelength \in GrpWavelengths, N \in 1 .. MaxMembers :
        /\ grp = SpectrumGroup("grp",
                    [k \in 1 .. N |->
                        PointSpectrum1D(MemberName("grp", k - 1),
                                        Row(k - 1, wavelength.nbands), wavelength,
                                        PointModel(R(k - 1), R(0)))],
                    [k \in 1 .. N |-> <<k - 1, 0>>], wavelength)
        /\ grp_ret = NoCall

\* grp.applybbl()
GrpApplyBbl ==
    LET r == group_applybbl(grp) IN
    /\ grp' = r.self
    /\ grp_ret' = [kind |-> "applybbl", outcome |-> r.kind, before |-> grp]
    /\ UNCHANGED <<geo_vars, wvl_vars, s1d_vars, loc_vars, io_vars>>

\* grp.spectra[n].applybbl(), the members being the objects the caller still holds
GrpMemberApplyBbl ==
    \E n \in 1 .. Len(grp.spectra) :
        LET r == applybbl(grp.spectra[n]) IN
        /\ grp' = [grp EXCEPT !.spectra[n] = r.self]
        /\ grp_ret' = [kind |-> "member", outcome |-> r.kind]
        /\ UNCHANGED <<geo_vars, wvl_vars, s1d_vars, loc_vars, io_vars>>

\* grp.asarray()
GrpAsArray ==
    /\ grp_ret' = [kind |-> "asarray", outcome |-> group_asarray(grp)]
    /\ UNCHANGED grp
    /\ UNCHANGED <<geo_vars, wvl_vars, s1d_vars, loc_vars, io_vars>>

GrpNext ==
    \/ GrpApplyBbl
    \/ GrpMemberApplyBbl
    \/ GrpAsArray

-----------------------------------------------------------------------------
(* writing.py and reading.py *)

\* Python's None
None == <<>>

\* GeoSpectrum1D(name=, spectrum=, wavelength=, point=): a Spectrum1D with a
\* PointGeolocation
GeoSpectrum1D(name, spectrum, wavelength, point) ==
    [name |-> name, spectrum |-> spectrum, wavelength |-> wavelength,
     bbl_applied |-> FALSE, point |-> point]

\* a path is <<stem, suffix>>; Path(fp).with_suffix(suffix)
with_suffix(fp, suffix) == <<fp[1], suffix>>

\* Path(fp).exists()
Exists(fs, fp) == \E f \in fs : f.path = fp

\* the JSON document read from fp
Content(fs, fp) == (CHOOSE f \in fs : f.path = fp).doc

\* open(fp, "w") and write: the file at fp is created or replaced
Write(fs, fp, doc) == {f \in fs : f.path # fp} \cup {[path |-> fp, doc |-> doc]}

\* the outcome of a writer that raised kind: nothing was written
Failed(fs, kind) == [kind |-> kind, files |-> fs, saved |-> {}]

\* the outcome of a writer that wrote doc to fp and returned
Saved(fs, fp, doc) == [kind |-> "ok", files |-> Write(fs, fp, doc), saved |-> {fp}]

\* the fields a document must have to validate as cls
RequiredFields(cls) ==
    CASE cls = "WvlModel" -> {"values", "unit", "bbl"}
      [] cls = "BaseGeolocationModel" -> {"crs", "geotransform"}
      [] cls = "Spectrum1D" -> {"name", "spectrum", "wavelength"}
      [] cls = "PointSpectrum1D" -> {"name", "spectrum", "wavelength", "pixel"}
      [] cls = "GeoSpectrum1D" -> {"name", "spectrum", "wavelength", "point"}
      [] cls = "SpectrumGroup" -> {"name", "spectra", "spectra_pts", "wavelength"}
      [] cls = "Spectrum3D" -> {"name", "wavelength", "nrows", "ncols", "raster_fp"}
      [] cls = "GeoSpectrum3D" -> {"name", "wavelength", "nrows", "ncols", "raster_fp",
                                   "geodata"}

\* the fields of cls that have a default
DefaultFields(cls) ==
    CASE cls = "WvlModel" -> {"resolution", "nbands", "ngoodbands"}
      [] cls = "BaseGeolocationModel" -> {}
      [] cls \in {"Spectrum1D", "PointSpectrum1D", "GeoSpectrum1D"} -> {"bbl_applied"}
      [] cls = "SpectrumGroup" -> {"polygon_vertices", "nspectra", "bbl_applied"}
      [] cls \in {"Spectrum3D", "GeoSpectrum3D"} -> {"nbands"}

\* cls.model_validate_json(doc): a missing required field is a ValidationError,
\* fields cls does not have are ignored, fields of cls are kept (the documents of
\* the model were dumped by these classes, so fields of one name have one type and
\* the validators find what they set)
model_validate_json(cls, doc) ==
    IF ~(RequiredFields(cls) \subseteq DOMAIN doc)
    THEN [kind |-> "ValidationError"]
    ELSE [kind |-> "ok",
          self |-> [f \in (RequiredFields(cls) \cup DefaultFields(cls)) \cap DOMAIN doc
                       |-> doc[f]]]

\* write_geodata(crs, geotransform, fp)
write_geodata(fs, crs, gdal_geotransform, fp) ==
    Saved(fs, with_suffix(fp, ".geodata"),
          BaseGeolocationModel(crs, fromgdal(gdal_geotransform)))

\* write_wvl(wvl_values, wvl_unit, fp, bbl): bbl None stands for all bands good
write_wvl(fs, wvl_values, wvl_unit, fp, bbl) ==
    LET bbl_vals == IF bbl = None THEN [i \in 1 .. Len(wvl_values) |-> TRUE] ELSE bbl
        made == WvlModel(wvl_values, wvl_unit, bbl_vals, R(0), 0, 0)
    IN  IF made.kind # "ok" THEN Failed(fs, made.kind)
        ELSE Saved(fs, with_suffix(fp, ".wvl"), made.self)

\* the geodata document loaded when geodata_fp is given: the file must exist and
\* validate as a BaseGeolocationModel
load_geodata(fs, geodata_fp) ==
    IF geodata_fp = None THEN [kind |-> "ok", self |-> None]
    ELSE IF ~Exists(fs, geodata_fp) THEN [kind |-> "FileNotFoundError"]
    ELSE model_validate_json("BaseGeolocationModel", Content(fs, geodata_fp))

\* the GeoSpectrum1D branch once from_base has returned geopt or raised
save_geospec(fs, spec_vals, wvlmodel, name, fp, geopt) ==
    IF geopt.kind # "ok" THEN Failed(fs, geopt.kind)
    ELSE Saved(fs, with_suffix(fp, ".geospec"),
               GeoSpectrum1D(name, spec_vals, wvlmodel, geopt.self))

write_spec1D_no_map_check(fs, spec_vals, wvlmodel, name, fp, location, location_type, geodata) ==
    IF geodata.kind # "ok" THEN Failed(fs, geodata.kind)
    ELSE IF location = None
    THEN Saved(fs, with_suffix(fp, ".rawspec"),
               [name |-> name, spectrum |-> spec_vals, wavelength |-> wvlmodel,
                bbl_applied |-> FALSE])
    ELSE IF geodata.self # None
    THEN save_geospec(fs, spec_vals, wvlmodel, name, fp,
                      from_base(geodata.self,
                                IF location_type = "map"
                                THEN <<location[2], location[1]>> ELSE location,
                                location_type))
    ELSE Saved(fs, with_suffix(fp, ".pntspec"),
               PointSpectrum1D(name, spec_vals, wvlmodel,
                               PointModel(location[1], location[2])))

\* write_spec1D(spec_vals, wvl, name, fp, location=, location_type=, geodata_fp=)
\* with wvl a WvlModel and fp not a directory; geodata is the outcome of loading
\* geodata_fp, which the function does first
write_spec1D(fs, spec_vals, wvlmodel, name, fp, location, location_type, geodata) ==
    IF geodata.kind # "ok" THEN Failed(fs, geodata.kind)
    ELSE IF location = None
    THEN Saved(fs, with_suffix(fp, ".rawspec"),
               [name |-> name, spectrum |-> spec_vals, wavelength |-> wvlmodel,
                bbl_applied |-> FALSE])
    ELSE IF geodata.self # None
    THEN save_geospec(fs, spec_vals, wvlmodel, name, fp,
                      from_base(geodata.self,
                                IF location_type = "map"
                                THEN <<location[2], location[1]>> ELSE location,
                                location_type))
    ELSE IF location_type = "map" THEN Failed(fs, "ValueError")
    ELSE Saved(fs, with_suffix(fp, ".pntspec"),
               PointSpectrum1D(name, spec_vals, wvlmodel,
                               PointModel(location[1], location[2])))

\* write_group(spec_group, spec_locations, wvl, name, fp) with spec_group an
\* ndarray given by its rows or a list of lists, wvl a WvlModel and fp not a
\* directory. For an ndarray the rows are fetched with n over range(shape[1]), and
\* a row index beyond the array raises IndexError.
write_group(fs, spec_group, is_ndarray, spec_locations, wvlmodel, name, fp) ==
    LET shape == <<Len(spec_group), Len(spec_group[1])>>
        failed(kind) == Failed(fs, kind)
        built(spec_data) ==
            LET spectra == [n \in 1 .. Len(spec_data) |->
                               PointSpectrum1D(MemberName(name, n - 1), spec_data[n],
                                               wvlmodel,
                                               PointModel(R(spec_locations[n][1]),
                                                          R(spec_locations[n][2])))]
                grp_obj == SpectrumGroup(name, spectra, spec_locations, wvlmodel)
            IN  IF Len(spec_data) > Len(spec_locations) THEN failed("IndexError")
                ELSE Saved(fs, with_suffix(fp, ".specgrp"), grp_obj)
    IN  IF is_ndarray
        THEN IF shape[2] # wvlmodel.nbands THEN failed("ValueError")
             ELSE IF shape[2] > shape[1] THEN failed("IndexError")
             ELSE built([n \in 1 .. shape[2] |-> spec_group[n]])
        ELSE built(spec_group)

\* with open(fp, "r") ...; cls.model_validate_json(json_str)
open_and_validate(fs, fp, cls) ==
    IF ~Exists(fs, fp) THEN [kind |-> "FileNotFoundError"]
    ELSE model_validate_json(cls, Content(fs, fp))

read_geodata(fs, geodata_fp) ==
    IF geodata_fp[2] # ".geodata" THEN [kind |-> "FileTypeError"]
    ELSE open_and_validate(fs, geodata_fp, "BaseGeolocationModel")

read_spec1D(fs, spec1d_fp, kind) ==
    CASE kind = "rawspec" -> open_and_validate(fs, spec1d_fp, "Spectrum1D")
      [] kind = "pntspec" -> open_and_validate(fs, spec1d_fp, "PointSpectrum1D")
      [] kind = "geospec" -> open_and_validate(fs, spec1d_fp, "GeoSpectrum1D")

read_group(fs, specgroup_fp) ==
    IF specgroup_fp[2] # ".specgrp" THEN [kind |-> "FileTypeError"]
    ELSE open_and_validate(fs, specgroup_fp, "SpectrumGroup")

read_spec3D(fs, spec3d_fp, kind) ==
    CASE kind = "spcub" -> open_and_validate(fs, spec3d_fp, "Spectrum3D")
      [] kind = "geospcub" -> open_and_validate(fs, spec3d_fp, "GeoSpectrum3D")

read_wvl(fs, wvl_fp) ==
    IF wvl_fp[2] # ".wvl" THEN [kind |-> "FileTypeError"]
    ELSE open_and_validate(fs, wvl_fp, "WvlModel")

\* the file types of the package
Suffixes == {".rawspec", ".pntspec", ".geospec", ".specgrp", ".spcub", ".geospcub",
             ".wvl", ".geodata"}

\* the readers with the kind they are asked for
Readers == {<<"read_geodata", "geodata">>, <<"read_group", "specgrp">>,
            <<"read_wvl", "wvl">>, <<"read_spec1D", "rawspec">>,
            <<"read_spec1D", "pntspec">>, <<"read_spec1D", "geospec">>,
            <<"read_spec3D", "spcub">>, <<"read_spec3D", "geospcub">>}

\* the wavelength object handed to the writers: n bands, all good
IOWvl(n) ==
    WvlModel([i \in 1 .. n |-> InUnit(i, "nm")], "nm", [i \in 1 .. n |-> TRUE],
             R(0), 0, 0).self

\* the destination the writers are given, without extension
OutPath == <<"out", "">>

\* nothing is on disk
IOInit ==
    /\ files = {}
    /\ io_ret = NoCall

\* the GDAL tuples given to write_geodata: a north-up transform with upper left
\* corner (1, 1), and a transform whose determinant is 0
GeodataTuples == {<<R(1), R(1), R(0), R(1), R(0), R(1)>>,
                  <<R(0), R(1), R(1), R(0), R(1), R(1)>>}

\* write_geodata("EPSG:4326", t, "out")
IOWriteGeodata ==
    \E t \in GeodataTuples :
        LET r == write_geodata(files, "EPSG:4326", t, OutPath) IN
        /\ files' = r.files
        /\ io_ret' = [kind |-> "write_geodata", outcome |-> r.kind]
        /\ UNCHANGED <<geo_vars, wvl_vars, s1d_vars, loc_vars, grp_vars>>

\* write_wvl(values, "nm", "out", bbl=None)
IOWriteWvl ==
    \E n \in 0 .. 1 :
        LET r == write_wvl(files, [i \in 1 .. n |-> InUnit(i, "nm")], "nm", OutPath, None) IN
        /\ files' = r.files
        /\ io_ret' = [kind |-> "write_wvl", outcome |-> r.kind]
        /\ UNCHANGED <<geo_vars, wvl_vars, s1d_vars, loc_vars, grp_vars>>

\* write_spec1D(spec_vals, wvl, "spec", "out", location=, location_type=,
\* geodata_fp=)
IOWriteSpec1D ==
    \E location \in {None, <<R(0), R(0)>>, <<R(2), R(1)>>},
       location_type \in {"pixel", "map"},
       geodata_fp \in {None, <<"out", ".geodata">>} :
        LET r == write_spec1D(files, Ramp(1), IOWvl(1), "spec", OutPath, location,
                              location_type, load_geodata(files, geodata_fp)) IN
        /\ files' = r.files
        /\ io_ret' = [kind |-> "write_spec1D", outcome |-> r.kind, location |-> location,
                      location_type |-> location_type, geodata_fp |-> geodata_fp,
                      geodata_found |-> geodata_fp # None /\ Exists(files, geodata_fp),
                      saved |-> r.saved]
        /\ UNCHANGED <<geo_vars, wvl_vars, s1d_vars, loc_vars, grp_vars>>

\* write_group(spec_group, spec_locations, wvl, "grp", "out") with an N x B array
\* and N locations
IOWriteGroup ==
    \E N \in 1 .. MaxMembers, B \in 1 .. MaxLen, nbands \in 1 .. MaxLen,
       is_ndarray \in BOOLEAN :
        LET spec_group == [n \in 1 .. N |-> Row(n - 1, B)]
            spec_locations == [n \in 1 .. N |-> <<n - 1, 0>>]
            r == write_group(files, spec_group, is_ndarray, spec_locations, IOWvl(nbands),
                             "grp", OutPath) IN
        /\ files' = r.files
        /\ io_ret' = [kind |-> "write_group", outcome |-> r.kind, spec_group |-> spec_group,
                      is_ndarray |-> is_ndarray, spec_locations |-> spec_locations,
                      nbands |-> nbands, saved |-> r.saved]
        /\ UNCHANGED <<geo_vars, wvl_vars, s1d_vars, loc_vars, grp_vars>>

\* one reader called on out.<suffix>
IORead ==
    \E reader \in Readers, suffix \in Suffixes :
        LET fp == <<"out", suffix>>
            r == CASE reader[1] = "read_geodata" -> read_geodata(files, fp)
                   [] reader[1] = "read_group" -> read_group(files, fp)
                   [] reader[1] = "read_wvl" -> read_wvl(files, fp)
                   [] reader[1] = "read_spec1D" -> read_spec1D(files, fp, reader[2])
                   [] reader[1] = "read_spec3D" -> read_spec3D(files, fp, reader[2])
        IN
        /\ io_ret' = [kind |-> "read", reader |-> reader, fp |-> fp, outcome |-> r]
        /\ UNCHANGED files
        /\ UNCHANGED <<geo_vars, wvl_vars, s1d_vars, loc_vars, grp_vars>>

\* the writers of single records and every reader
IONext ==
    \/ IOWriteGeodata
    \/ IOWriteWvl
    \/ IOWriteSpec1D
    \/ IORead

\* the writer of groups and every reader
GrpIONext ==
    \/ IOWriteGroup
    \/ IORead

-----------------------------------------------------------------------------
(* Specifications: one per component, the other components idle *)

GeoIdle ==
    /\ geotransform = GeotransformModel(PointModel(R(0), R(0)), R(1), R(0), R(-1), R(0))
    /\ gdal_in = <<>>
    /\ gdal_out = <<>>
    /\ pixel_in = NoCall
    /\ map_pt = <<>>
    /\ pixel_out = NoCall

WvlIdle ==
    /\ wvl = WvlModel(<<InUnit(1, "nm")>>, "nm", <<TRUE>>, R(0), 0, 0).self
    /\ wvl_ret = [kind |-> "init"]
    /\ origin = Snapshot(wvl)

LocIdle ==
    /\ geoloc = BaseGeolocationModel("EPSG:4326",
                    GeotransformModel(PointModel(R(0), R(0)), R(1), R(0), R(-1), R(0)))
    /\ point_geo = NoCall
    /\ raster_geo = NoCall

GrpIdle ==
    /\ grp = <<>>
    /\ grp_ret = NoCall

IOIdle ==
    /\ files = {}
    /\ io_ret = NoCall

InitGeo == GeoInit /\ WvlIdle /\ S1DInit /\ LocIdle /\ GrpIdle /\ IOIdle

SpecGeo == InitGeo /\ [][GeoNext]_vars

InitWvl == GeoIdle /\ WvlInit /\ S1DInit /\ LocIdle /\ GrpIdle /\ IOIdle

SpecWvl == InitWvl /\ [][WvlNext]_vars

InitS1D == GeoIdle /\ WvlIdle /\ S1DInit /\ LocIdle /\ GrpIdle /\ IOIdle

InitGrp == GeoIdle /\ WvlIdle /\ S1DInit /\ LocIdle /\ GrpInit /\ IOIdle

SpecGrp == InitGrp /\ [][GrpNext]_vars

InitIO == GeoIdle /\ WvlIdle /\ S1DInit /\ LocIdle /\ GrpIdle /\ IOInit

SpecIO == InitIO /\ [][IONext]_vars

SpecGrpIO == InitIO /\ [][GrpIONext]_vars

InitLoc == GeoIdle /\ WvlIdle /\ S1DInit /\ LocInit /\ GrpIdle /\ IOIdle

SpecLoc == InitLoc /\ [][LocNext]_vars

SpecS1D == InitS1D /\ [][S1DNext]_vars

-----------------------------------------------------------------------------
(* Claims about GeotransformModel, under SpecGeo *)

\* C1: for a transform with nonzero determinant and a pixel point (col, row) with
\* col, row >= 0, map_to_pixel(pixel_to_map(col, row)) with the default convention
\* returns (col, row).
InverseLaw ==
    (/\ pixel_in.kind = "pixel"
     /\ pixel_in.convention = "hemi"
     /\ pixel_out # NoCall
     /\ ~IsZero(Scaler(geotransform)))
    => pixel_out = [kind |-> "ok", pt |-> pixel_in.pt]

\* C2: fromgdal(t).togdal() is t, position by position.
GdalRoundTrip ==
    (gdal_in # <<>> /\ gdal_out # <<>>) => gdal_out = gdal_in

\* C10: with a zero determinant map_to_pixel fails with the explicit
\* degenerate-transform error, never with a generic arithmetic error and never by
\* returning a point.
DegenerateIsExplicit ==
    (pixel_out # NoCall /\ IsZero(Scaler(geotransform)))
    => pixel_out.kind = "DegenerateTransformError"

\* the two quotients map_to_pixel forms before its bounds checks, where xres, yres
\* and the determinant are nonzero
ComputedPixel(self, xmap, ymap) ==
    LET det == RSub(RMul(self.xres, self.yres), RMul(self.col_rotation, self.row_rotation))
        xnum == RAdd(RSub(RSub(RMul(self.yres, xmap), RMul(self.upperleft.x, self.yres)),
                          RMul(RDiv(RMul(self.row_rotation, self.yres), self.xres), ymap)),
                     RMul(self.row_rotation, self.upperleft.y))
        ynum == RAdd(RSub(RSub(RMul(self.xres, ymap), RMul(self.upperleft.y, self.xres)),
                          RMul(RDiv(RMul(self.col_rotation, self.xres), self.yres), xmap)),
                     RMul(self.col_rotation, self.upperleft.x))
    IN  <<RDiv(xnum, det), RDiv(ynum, det)>>

\* C11: for a transform with nonzero determinant, map_to_pixel raises
\* GeographicBoundsError exactly when a pixel coordinate it computed is negative,
\* and returns the computed pixel, however large, when both are non-negative.
NegativeSideOnly ==
    (pixel_out # NoCall /\ ~IsZero(Scaler(geotransform)))
    => LET computed == ~IsZero(geotransform.xres) /\ ~IsZero(geotransform.yres)
           px == ComputedPixel(geotransform, map_pt[1], map_pt[2])
           negative == RLess(px[1], R(0)) \/ RLess(px[2], R(0))
       IN  /\ pixel_out.kind = "GeographicBoundsError" <=> (computed /\ negative)
           /\ (computed /\ ~negative) => pixel_out = [kind |-> "ok", pt |-> px]

\* C11 witness: a map point of the caller whose pixel lies beyond every coordinate
\* given, on the positive side, and is returned
NegativeSideOnlyWitness ==
    /\ pixel_in = NoCall
    /\ pixel_out.kind = "ok"
    /\ RLess(R(MaxPixel), pixel_out.pt[1])
    /\ ~IsZero(geotransform.row_rotation)

-----------------------------------------------------------------------------
(* Claims about PointGeolocation and RasterGeolocation, under SpecLoc *)

\* C12: every record from_base returns carries the crs and geotransform of base
\* and map_point = base.geotransform.pixel_to_map(pixel_point); a call that
\* returns no record was given a map location and failed as map_to_pixel fails.
PointPairConsistent ==
    /\ point_geo.kind = "ok"
         => /\ point_geo.self.crs = geoloc.crs
            /\ point_geo.self.geotransform = geoloc.geotransform
            /\ <<point_geo.self.map_point.x, point_geo.self.map_point.y>>
                 = pixel_to_map(geoloc.geotransform, point_geo.self.pixel_point.x,
                                point_geo.self.pixel_point.y, "hemi")
    /\ point_geo.kind \notin {"none", "ok"}
         => /\ point_geo.location_type = "map"
            /\ point_geo.kind = map_to_pixel(geoloc.geotransform, point_geo.location[1],
                                              point_geo.location[2]).kind

\* C17: the bounds of every RasterGeolocation constructed, whatever bounds were
\* given, are left = upperleft.x, top = upperleft.y, right = upperleft.x +
\* width * xres, bottom = upperleft.y + height * yres.
BoundsDerived ==
    raster_geo.kind = "ok"
    => LET r == raster_geo.self
           g == r.geotransform
       IN  /\ r.bounds.left = g.upperleft.x
           /\ r.bounds.top = g.upperleft.y
           /\ r.bounds.right = RAdd(g.upperleft.x, RMul(R(r.width), g.xres))
           /\ r.bounds.bottom = RAdd(g.upperleft.y, RMul(R(r.height), g.yres))

\* C17 witness: a raster of unequal sides built with bounds given by the caller
BoundsDerivedWitness ==
    /\ raster_geo.kind = "ok"
    /\ raster_geo.given # Bounds(R(0), R(0), R(0), R(0))
    /\ raster_geo.self.height = 1
    /\ raster_geo.self.width = 2
    /\ raster_geo.self.geotransform.xres # raster_geo.self.geotransform.yres
    /\ raster_geo.self.bounds # raster_geo.given

-----------------------------------------------------------------------------
(* Claims about WvlModel, under SpecWvl *)

\* values of self converted to unit, bad bands included
FullConverted(self, unit) == convert_to(self, unit).values

\* C3: find(guess, unit) returns (i, v) with i the index, in the full values list,
\* of the first entry whose value converted to unit is nearest to guess, and v the
\* value at i in the original unit.
FindScansFullSequence ==
    (wvl_ret.kind = "find" /\ wvl_ret.outcome.kind = "ok")
    => LET full == FullConverted(wvl, wvl_ret.unit)
           i == argmin([k \in 1 .. Len(full) |-> RAbs(RSub(full[k], wvl_ret.wvl_guess))])
       IN  /\ wvl_ret.outcome.idx = i
           /\ wvl_ret.outcome.value = wvl.values[i + 1]

\* C6: with the series in unit a, convert_to(b) then convert_to(a) leaves the unit a
\* and every value as it was; a single convert_to(a) leaves the values unchanged.
ConvertRoundTrip ==
    (wvl_ret.kind = "convert_to")
    => /\ wvl.unit = wvl_ret.unit
       /\ (origin.hops \in {1, 2} /\ wvl_ret.unit = origin.unit)
             => wvl.values = origin.values

\* C6 witness: a series in nm converted to wavenumber and back to nm
ConvertRoundTripWitness ==
    /\ wvl_ret.kind = "convert_to"
    /\ origin.hops = 2
    /\ origin.unit = "nm"
    /\ wvl_ret.from = "v"
    /\ wvl_ret.unit = "nm"
    /\ Len(wvl.values) = 2
    /\ wvl.values[1] # wvl.values[2]

\* C7: after construction and after any convert_to, item assignment and find,
\* nbands is len(values) and ngoodbands is the number of true entries of bbl.
DerivedBandCounts ==
    WvlExists
    => /\ wvl.nbands = Len(wvl.values)
       /\ wvl.ngoodbands = CountNonzero(wvl.bbl)

\* C7 witness: a two-band series with one bad band, after a find that returned
DerivedBandCountsWitness ==
    /\ wvl_ret.kind = "find"
    /\ wvl_ret.outcome.kind = "ok"
    /\ wvl.nbands = 2
    /\ wvl.ngoodbands = 1
    /\ wvl.unit = "um"

\* C8: after every convert_to that changes the unit and after every item
\* assignment, resolution is (max - min) / len of the current values.
ResolutionIsDerived ==
    (\/ wvl_ret.kind = "convert_to" /\ wvl_ret.from # wvl_ret.unit
     \/ wvl_ret.kind = "setitem" /\ wvl_ret.outcome = "ok")
    => wvl.resolution = Resolution(wvl.values)

\* C9: every WvlModel that exists has len(bbl) = len(values) and len(values) >= 1.
MaskLengthValidated ==
    WvlExists
    => /\ Len(wvl.bbl) = Len(wvl.values)
       /\ Len(wvl.values) >= 1

-----------------------------------------------------------------------------
(* Claims about Spectrum1D, under SpecS1D *)

\* C4: in every reachable state, len(spectrum) is wavelength.nbands while
\* bbl_applied is false and wavelength.ngoodbands once it is true (stated for the
\* records whose wavelength has a mask as long as its values).
LengthInvariant ==
    WellFormed(spec1d.wavelength)
    => Len(spec1d.spectrum) = IF spec1d.bbl_applied
                              THEN spec1d.wavelength.ngoodbands
                              ELSE spec1d.wavelength.nbands

\* C5: once applybbl has set bbl_applied, every further applybbl call ends the same
\* way for every mask (always rejected, or always ignored) and changes nothing
\* (stated for the records whose wavelength has a mask as long as its values).
RepeatHandledConsistently ==
    LET log == {r \in repeat_log : r.wellformed} IN
    /\ Cardinality({r.outcome : r \in log}) <= 1
    /\ \A r \in log : ~r.changed

\* the entries of s at the indices where mask is true, in their order
AtTrue(s, mask) ==
    LET numbered == [i \in 1 .. Len(s) |-> <<i, s[i]>>]
        kept == SelectSeq(numbered, LAMBDA p : p[1] <= Len(mask) /\ mask[p[1]])
    IN  [i \in 1 .. Len(kept) |-> kept[i][2]]

\* C13: applybbl on a record with bbl_applied false and len(spectrum) =
\* wavelength.nbands leaves spectrum as its entries at the indices where
\* wavelength.bbl is true, in their order, bbl_applied true and wavelength as it was.
ApplyFiltersSpectrum ==
    (/\ apply_ret.kind # "init"
     /\ ~apply_ret.before.bbl_applied
     /\ Len(apply_ret.before.spectrum) = apply_ret.before.wavelength.nbands)
    => /\ spec1d.spectrum = AtTrue(apply_ret.before.spectrum, apply_ret.before.wavelength.bbl)
       /\ spec1d.bbl_applied
       /\ spec1d.wavelength = apply_ret.before.wavelength

-----------------------------------------------------------------------------
(* Claims about SpectrumGroup, under SpecGrp *)

\* the width the group's bbl_applied flag selects
SelectedWidth(self) ==
    IF self.bbl_applied THEN self.wavelength.ngoodbands ELSE self.wavelength.nbands

\* C14: asarray either returns nspectra rows, row n being member n's spectrum
\* entry for entry, or fails; it fails whenever a member's length differs from the
\* width the group's bbl_applied flag selects.
AsArrayStacksOrFails ==
    grp_ret.kind = "asarray"
    => /\ \/ grp_ret.outcome.kind # "ok"
          \/ /\ Len(grp_ret.outcome.arr) = grp.nspectra
             /\ \A n \in 1 .. grp.nspectra :
                    grp_ret.outcome.arr[n] = grp.spectra[n].spectrum
       /\ (\E n \in 1 .. Len(grp.spectra) :
                Len(grp.spectra[n].spectrum) # SelectedWidth(grp))
            => grp_ret.outcome.kind # "ok"

\* C18: after a group-level applybbl either the call succeeded, every member has
\* bbl_applied true and len(spectrum) = wavelength.ngoodbands and the group's flag
\* is true, or the call failed and the group and its members are as before.
NoPartialSuccess ==
    grp_ret.kind = "applybbl"
    => \/ /\ grp_ret.outcome = "ok"
          /\ grp.bbl_applied
          /\ \A n \in 1 .. Len(grp.spectra) :
                /\ grp.spectra[n].bbl_applied
                /\ Len(grp.spectra[n].spectrum) = grp.spectra[n].wavelength.ngoodbands
       \/ /\ grp_ret.outcome # "ok"
          /\ grp = grp_ret.before

-----------------------------------------------------------------------------
(* Claims about the writers and readers, under SpecIO and SpecGrpIO *)

\* the last write_spec1D call returned and wrote the one file out<suffix>
WroteOne(suffix) ==
    /\ io_ret.outcome = "ok"
    /\ io_ret.saved = {<<"out", suffix>>}
    /\ Exists(files, <<"out", suffix>>)

\* the last write_spec1D call raised kind and wrote no file
RaisedOnly(kind) ==
    /\ io_ret.outcome = kind
    /\ io_ret.saved = {}

\* C15 as stated, for the calls whose geodata path, if given, names a geodata
\* file: location None writes one .rawspec file; a location and no geodata path
\* with location_type "pixel" one .pntspec file; a location and a geodata path one
\* .geospec file; a "map" location and no geodata path raises ValueError and
\* writes no file.
SuffixFromShape ==
    (io_ret.kind = "write_spec1D" /\ (io_ret.geodata_fp = None \/ io_ret.geodata_found))
    => CASE io_ret.location = None -> WroteOne(".rawspec")
         [] io_ret.location # None /\ io_ret.geodata_fp # None -> WroteOne(".geospec")
         [] io_ret.location # None /\ io_ret.geodata_fp = None
                /\ io_ret.location_type = "pixel" -> WroteOne(".pntspec")
         [] io_ret.location # None /\ io_ret.geodata_fp = None
                /\ io_ret.location_type = "map" -> RaisedOnly("ValueError")

\* C15 as amended: as above, except that with a geodata path and a "map" location
\* the .geospec file is written only when map_to_pixel of the geodata's transform
\* returns for (location[1], location[0]); when it raises, the call raises the
\* same error and writes no file; and a geodata path naming no file raises
\* FileNotFoundError and writes no file.
SuffixFromShapeOrError ==
    io_ret.kind = "write_spec1D"
    => IF io_ret.geodata_fp # None /\ ~io_ret.geodata_found
       THEN RaisedOnly("FileNotFoundError")
       ELSE CASE io_ret.location = None -> WroteOne(".rawspec")
              [] io_ret.location # None /\ io_ret.geodata_fp # None
                     /\ io_ret.location_type = "pixel" -> WroteOne(".geospec")
              [] io_ret.location # None /\ io_ret.geodata_fp # None
                     /\ io_ret.location_type = "map" ->
                    LET px == map_to_pixel(Content(files, io_ret.geodata_fp).geotransform,
                                           io_ret.location[2], io_ret.location[1])
                    IN  IF px.kind = "ok" THEN WroteOne(".geospec") ELSE RaisedOnly(px.kind)
              [] io_ret.location # None /\ io_ret.geodata_fp = None
                     /\ io_ret.location_type = "pixel" -> WroteOne(".pntspec")
              [] io_ret.location # None /\ io_ret.geodata_fp = None
                     /\ io_ret.location_type = "map" -> RaisedOnly("ValueError")

\* C15 witness: a map location written with a geodata file, a .rawspec and a
\* .pntspec file being on disk from earlier calls
SuffixFromShapeWitness ==
    /\ io_ret.kind = "write_spec1D"
    /\ io_ret.location_type = "map"
    /\ io_ret.geodata_found
    /\ io_ret.saved = {<<"out", ".geospec">>}
    /\ Exists(files, <<"out", ".rawspec">>)
    /\ Exists(files, <<"out", ".pntspec">>)

\* the one suffix a reader expects for the kind asked
ExpectedSuffix(reader) == "." \o reader[2]

\* C16: every reader called on a path whose suffix is not the one expected for the
\* record type asked fails with FileTypeError, whether or not the file exists, and
\* returns no record.
SuffixChecked ==
    (io_ret.kind = "read" /\ io_ret.fp[2] # ExpectedSuffix(io_ret.reader))
    => io_ret.outcome.kind = "FileTypeError"

\* C19: write_group given an N x B ndarray and N locations, with B =
\* wavelength.nbands, writes a group of N members, member n named <name>_000n with
\* row n as spectrum and location n as pixel, and nspectra = N; with B #
\* wavelength.nbands it raises ValueError and writes nothing.
GroupHasEveryRow ==
    (io_ret.kind = "write_group" /\ io_ret.is_ndarray)
    => LET N == Len(io_ret.spec_group)
           B == Len(io_ret.spec_group[1])
       IN  IF B # io_ret.nbands
           THEN io_ret.outcome = "ValueError" /\ io_ret.saved = {}
           ELSE /\ io_ret.outcome = "ok"
                /\ LET g == Content(files, <<"out", ".specgrp">>) IN
                   /\ g.nspectra = N
                   /\ Len(g.spectra) = N
                   /\ \A n \in 1 .. N :
                         /\ g.spectra[n].name = MemberName("grp", n - 1)
                         /\ g.spectra[n].spectrum = io_ret.spec_group[n]
                         /\ g.spectra[n].pixel =
                               PointModel(R(io_ret.spec_locations[n][1]),
                                          R(io_ret.spec_locations[n][2]))

====
